---- MODULE Spec2Model ----
(***************************************************************************)
(* CCCapsNet: model.py (CompositionalEmbedding, Model), datasets/yelp.py   *)
(* (yelp_dataset) and the training loop of main.py.                        *)
(*                                                                         *)
(* Tensors are modelled by their shapes (sequences of dimension sizes); a  *)
(* tensor operation that raises is the shape ERR, which every later        *)
(* operation propagates.  Where a claim is about values (the softmax       *)
(* weights, the randomness of a forward pass) small integer values are     *)
(* carried next to the shapes.                                             *)
(***************************************************************************)
EXTENDS Integers, Sequences, FiniteSets, TLC

VARIABLES emb, embOut, model, calls, yelpDefault, yelpCall, loop

vars == <<emb, embOut, model, calls, yelpDefault, yelpCall, loop>>

----------------------------------------------------------------------------
(* Bounds of the model.                                                    *)

MaxVocab == 10
MaxRoot == 5
MaxCodebook == 5
MaxCodeword == 2
MaxEmbDim == 2
MaxBatch == 2
MaxSeqLen == 2
ValVocab == 2
ValCodebook == 2
ValCodeword == 2
MaxLogit == 1
MaxModelVocab == 3
MaxModelEmbSize == 1
MaxModelCodebook == 2
MaxModelCodeword == 2
MaxHidden == 4
MaxInLength == 3
MaxOutLength == 1
MaxClass == 2
RunBatch == 2
RunCodeword == 2
MaxYelpCalls == 4
MaxEpochs == 2
MaxNumSteps == 2
MaxTrainBatches == 2
MaxAccuracy == 2

----------------------------------------------------------------------------
(* Shape algebra of the tensor library, as far as model.py uses it.        *)

ERR == <<-1>>

RECURSIVE Prod(_)
Prod(s) == IF s = <<>> THEN 1 ELSE Head(s) * Prod(Tail(s))

RECURSIVE Pow(_, _)
Pow(x, e) == IF e = 0 THEN 1 ELSE x * Pow(x, e - 1)

(* torch.Tensor(d1, ..., dn): an uninitialised tensor; a negative size raises. *)
TorchTensor(dims) ==
    IF \E i \in DOMAIN dims : dims[i] < 0 THEN ERR ELSE dims

(* t.index_select(dim=0, index): dimension 0 becomes the number of indices. *)
IndexSelect0(s, n) ==
    IF s = ERR \/ Len(s) = 0 THEN ERR ELSE <<n>> \o Tail(s)

(* F.softmax(t, dim) and F.gumbel_softmax(t): the shape is kept.            *)
SameShape(s) == s

(* t[:, :, None, :] of a rank-3 tensor.                                     *)
UnsqueezeAt3(s) ==
    IF s = ERR \/ Len(s) # 3 THEN ERR ELSE <<s[1], s[2], 1, s[3]>>

(* t[None, :, :, :] of a rank-3 tensor.                                     *)
UnsqueezeAt1(s) ==
    IF s = ERR \/ Len(s) # 3 THEN ERR ELSE <<1>> \o s

Broadcast(a, b) == IF a = b THEN a ELSE IF a = 1 THEN b ELSE IF b = 1 THEN a ELSE -1

(* a @ b of two rank-4 tensors: batch dimensions broadcast, inner sizes agree. *)
MatMul4(a, b) ==
    IF a = ERR \/ b = ERR \/ Len(a) # 4 \/ Len(b) # 4 THEN ERR
    ELSE IF a[4] # b[3] \/ Broadcast(a[1], b[1]) < 0 \/ Broadcast(a[2], b[2]) < 0 THEN ERR
    ELSE <<Broadcast(a[1], b[1]), Broadcast(a[2], b[2]), a[3], b[4]>>

(* Removes position i of a sequence.                                        *)
DropAt(s, i) == SubSeq(s, 1, i - 1) \o SubSeq(s, i + 1, Len(s))

(* t.squeeze(dim=-2): the last but one dimension goes if its size is 1.     *)
SqueezeM2(s) ==
    IF s = ERR \/ Len(s) < 2 THEN ERR
    ELSE IF s[Len(s) - 1] = 1 THEN DropAt(s, Len(s) - 1) ELSE s

(* t.sum(dim=d), t.mean(dim=d), t.norm(dim=d), with d counted from 0.       *)
ReduceDim(s, d) ==
    IF s = ERR \/ d + 1 > Len(s) THEN ERR ELSE DropAt(s, d + 1)

(* t.argmax(dim=-1): the last dimension goes; it must not be empty.         *)
ArgmaxLast(s) ==
    IF s = ERR \/ Len(s) = 0 THEN ERR
    ELSE IF s[Len(s)] = 0 /\ Prod(DropAt(s, Len(s))) > 0 THEN ERR
    ELSE DropAt(s, Len(s))

(* torch.stack(list): a non-empty list of tensors of one shape.             *)
Stack(list) ==
    IF Len(list) = 0 THEN ERR
    ELSE IF \E i \in DOMAIN list : list[i] = ERR \/ list[i] # list[1] THEN ERR
    ELSE <<Len(list)>> \o list[1]

(* t.view(target): target holds at most one -1, which is inferred.          *)
View(s, target) ==
    IF s = ERR THEN ERR
    ELSE LET holes == {i \in DOMAIN target : target[i] = -1}
             known == Prod([i \in DOMAIN target |->
                              IF target[i] = -1 THEN 1 ELSE target[i]])
         IN IF \E i \in DOMAIN target : target[i] < -1 THEN ERR
            ELSE IF holes = {}
                 THEN IF known = Prod(s) THEN target ELSE ERR
            ELSE IF Cardinality(holes) > 1 \/ known = 0 THEN ERR
            ELSE IF Prod(s) % known # 0 THEN ERR
            ELSE [i \in DOMAIN target |->
                    IF target[i] = -1 THEN Prod(s) \div known ELSE target[i]]

----------------------------------------------------------------------------
(* math.ceil(math.pow(num_embeddings, 1 / num_codebook)) in IEEE doubles.   *)
(* 1 / b is the double nearest to the rational 1/b; pow is the double       *)
(* nearest to n^(that double); ceil is exact.                               *)

RECURSIVE PowCap(_, _, _)
(* x^e, or cap + 1 when x^e exceeds cap (no intermediate overflows).        *)
PowCap(x, e, cap) ==
    IF e = 0 THEN 1
    ELSE LET p == PowCap(x, e - 1, cap)
         IN IF x > 0 /\ p > cap \div x THEN cap + 1 ELSE p * x

RECURSIVE RootSearch(_, _, _, _)
RootSearch(n, b, lo, hi) ==
    IF lo = hi THEN lo
    ELSE LET mid == (lo + hi + 1) \div 2
         IN IF PowCap(mid, b, n) <= n THEN RootSearch(n, b, mid, hi)
            ELSE RootSearch(n, b, lo, mid - 1)

(* The largest k with k^b <= n, the floor of the exact b-th root of n.      *)
FloorRoot(n, b) == RootSearch(n, b, 0, n)

RECURSIVE CeilLog2From(_, _)
CeilLog2From(b, s) == IF Pow(2, s) >= b THEN s ELSE CeilLog2From(b, s + 1)

(* The least s with 2^s >= b: 1/b = (2^s / b) * 2^-s with 2^s / b in [1, 2). *)
CeilLog2(b) == CeilLog2From(b, 0)

RECURSIVE FloorLog2From(_, _)
FloorLog2From(k, l) == IF Pow(2, l + 1) <= k THEN FloorLog2From(k, l + 1) ELSE l

(* The binary exponent of k >= 1: ulp(k) = 2^(FloorLog2(k) - 52).           *)
FloorLog2(k) == FloorLog2From(k, 0)

RECURSIVE PowMod2(_, _)
PowMod2(e, b) == IF e = 0 THEN 1 % b ELSE (2 * PowMod2(e - 1, b)) % b

(* The 53-bit significand of the double 1/b is m = round(2^(52+s) / b);     *)
(* b * m - 2^(52+s), the signed rounding error of the division, scaled.     *)
(* Positive: the double 1/b lies above the rational 1/b.                    *)
RecipErr(b) ==
    LET r == PowMod2(52 + CeilLog2(b), b)
    IN IF 2 * r > b THEN b - r ELSE 0 - r

RECURSIVE AtanhSeries(_, _, _, _)
AtanhSeries(term, a, q, j) ==
    IF j = 20 THEN 0
    ELSE term \div (2 * j + 1) + AtanhSeries((term * a * a) \div (q * q), a, q, j + 1)

(* ln(k) * 10^6, by ln k = 2 atanh((k-1)/(k+1)).                            *)
LnMicro(k) == 2 * AtanhSeries((1000000 * (k - 1)) \div (k + 1), k - 1, k + 1, 0)

(* Whether pow(k^b, double(1/b)) is a double above k: the exact power is    *)
(* k * exp(delta * b * ln k) with delta = RecipErr(b) / (b * 2^(52+s)), and *)
(* it rounds above k when it exceeds k by more than half an ulp of k.       *)
PowAboveRoot(k, b) ==
    /\ RecipErr(b) > 0
    /\ RecipErr(b) * k * LnMicro(k) > Pow(2, FloorLog2(k) + CeilLog2(b) - 1) * 1000000

(* math.ceil(math.pow(n, 1 / b)) for n >= 1, b >= 1.                        *)
CeilPowRecip(n, b) ==
    LET k == FloorRoot(n, b)
    IN IF Pow(k, b) < n THEN k + 1
       ELSE IF PowAboveRoot(k, b) THEN k + 1 ELSE k

(* The default of num_codeword (num_codeword is None), for n >= 1:          *)
(* 1 / 0 raises ZeroDivisionError; a negative exponent gives a power in     *)
(* (0, 1], whose ceiling is 1.                                              *)
DefaultNumCodeword(n, b) ==
    IF b = 0 THEN [ok |-> FALSE, val |-> 0]
    ELSE IF b < 0 THEN [ok |-> TRUE, val |-> 1]
    ELSE [ok |-> TRUE, val |-> CeilPowRecip(n, b)]

----------------------------------------------------------------------------
(* CompositionalEmbedding.                                                  *)

NoEmb ==
    [state |-> "none", num_embeddings |-> 0, embedding_dim |-> 0, num_codebook |-> 0,
     weighted |-> FALSE, cwGiven |-> FALSE, code |-> ERR, codebook |-> ERR,
     tracked |-> FALSE, codeVal |-> <<>>]

(* The object a raising __init__ leaves behind: none.                       *)
FailedEmb == [NoEmb EXCEPT !.state = "failed"]

(* The values nn.init.normal_ may give the code parameter: for each token   *)
(* id 0..V-1 (stored at 1..V), codebook and codeword a logit in 0..MaxLogit. *)
(* Untracked (the shape-only specification): the empty tuple.               *)
InitNormal(tracked, v, b, k) ==
    IF tracked
    THEN [1..v -> [1..b -> [1..k -> 0..MaxLogit]]]
    ELSE {<<>>}

(* CompositionalEmbedding.__init__ with num_codeword given (cwGiven) or None. *)
CEInit(num_embeddings, embedding_dim, num_codebook, cwGiven, num_codeword, weighted, tracked, vals) ==
    LET k == IF cwGiven THEN [ok |-> TRUE, val |-> num_codeword]
             ELSE DefaultNumCodeword(num_embeddings, num_codebook)
        code == TorchTensor(<<num_embeddings, num_codebook, k.val>>)
        codebook == TorchTensor(<<num_codebook, k.val, embedding_dim>>)
    IN IF ~k.ok \/ code = ERR \/ codebook = ERR THEN FailedEmb
       ELSE [state |-> "built", num_embeddings |-> num_embeddings,
             embedding_dim |-> embedding_dim, num_codebook |-> num_codebook,
             weighted |-> weighted, cwGiven |-> cwGiven, code |-> code,
             codebook |-> codebook, tracked |-> tracked, codeVal |-> vals]

(* The number of codewords the object was built with.                       *)
NumCodewordOf(e) == e.code[3]

(* input.view(-1) of a batch of token ids given as a matrix.                *)
RECURSIVE Flatten(_)
Flatten(x) == IF x = <<>> THEN <<>> ELSE Head(x) \o Flatten(Tail(x))

(* The shape of a token batch.                                              *)
ShapeOf(x) == <<Len(x), IF Len(x) = 0 THEN 0 ELSE Len(x[1])>>

(* exp of a logit, up to the base: positive and increasing.                 *)
ExpW(l) == Pow(2, l)

RECURSIVE SumOver(_, _)
SumOver(f, S) ==
    IF S = {} THEN 0
    ELSE LET i == CHOOSE j \in S : TRUE IN f[i] + SumOver(f, S \ {i})

(* F.softmax(code, dim=-2) on one token's (num_codebook, num_codeword) row: *)
(* dim -2 of the (tokens, num_codebook, num_codeword) tensor is the         *)
(* codebook axis.  Each weight is a fraction <<numerator, denominator>>.    *)
SoftmaxDimM2(row) ==
    [b \in DOMAIN row |->
        [k \in DOMAIN row[b] |->
            <<ExpW(row[b][k]),
              SumOver([c \in DOMAIN row |-> ExpW(row[c][k])], DOMAIN row)>>]]

(* The weights of the weighted branch for every token of the flat index.    *)
CEWeights(e, index) ==
    IF e.tracked /\ e.weighted
    THEN [p \in DOMAIN index |-> SoftmaxDimM2(e.codeVal[index[p] + 1])]
    ELSE <<>>

(* (code[:, :, None, :] @ self.codebook[None, :, :, :]).squeeze(dim=-2)     *)
CEMatMul(e, code) ==
    SqueezeM2(MatMul4(UnsqueezeAt3(code), UnsqueezeAt1(e.codebook)))

(* The weighted branch without its .sum(dim=1).                             *)
CEWeightedOutNoSum(e, code) == CEMatMul(e, SameShape(code))

(* The weighted branch: softmax, matmul with the codebooks, sum over them.  *)
CEWeightedOut(e, code) == ReduceDim(CEMatMul(e, SameShape(code)), 1)

(* t[:, i] of a rank-2 tensor and t[i, :, :] of a rank-3 tensor, i from 0.  *)
SelectCol(s, i) ==
    IF s = ERR \/ Len(s) # 2 THEN ERR ELSE IF i < s[2] THEN <<s[1]>> ELSE ERR

SelectRow(s, i) ==
    IF s = ERR \/ Len(s) # 3 THEN ERR ELSE IF i < s[1] THEN Tail(s) ELSE ERR

(* The unweighted branch: iteration Gumbel-softmax samples are stacked and  *)
(* summed, argmax picks a codeword per codebook, the chosen codewords of    *)
(* the codebooks are stacked and summed.                                    *)
CEUnweightedOut(e, code, iteration) ==
    LET samples == [i \in 1..iteration |-> SameShape(code)]
        hard == ArgmaxLast(ReduceDim(Stack(samples), 0))
        outs == [i \in 1..e.num_codebook |->
                    LET sel == View(SelectCol(hard, i - 1), <<-1>>)
                    IN IF sel = ERR THEN ERR
                       ELSE IndexSelect0(SelectRow(e.codebook, i - 1), sel[1])]
    IN ReduceDim(Stack(outs), 0)

(* CompositionalEmbedding.forward(input, iteration): the output's shape.    *)
CEForward(e, input, iteration) ==
    LET batch_size == input[1]
        index == View(input, <<-1>>)
        code == IF index = ERR THEN ERR ELSE IndexSelect0(e.code, index[1])
        out == IF e.weighted THEN CEWeightedOut(e, code)
               ELSE CEUnweightedOut(e, code, iteration)
    IN View(out, <<batch_size, -1, e.embedding_dim>>)

NoEmbOut == [called |-> FALSE, input |-> <<0, 0>>, out |-> ERR, weights |-> <<>>]

(* Batches of token ids: batch x seq_len matrices over ids.                 *)
TokenBatches(ids) ==
    UNION {[1..b -> [1..s -> ids]] : b \in 1..MaxBatch, s \in 1..MaxSeqLen}

(* The token ids the specifications feed an embedding of v tokens.          *)
TokenIds(e) == IF e.tracked THEN 0..(e.num_embeddings - 1) ELSE {0}

(* m = CompositionalEmbedding(...): tried once, on arguments from the sets. *)
CEConstruct(Vs, Ds, Bs, Ks, tracked) ==
    /\ emb.state = "none"
    /\ \E v \in Vs, d \in Ds, b \in Bs, k \in Ks, given \in BOOLEAN, w \in BOOLEAN :
         LET kk == IF given THEN k
                   ELSE IF DefaultNumCodeword(v, b).ok THEN DefaultNumCodeword(v, b).val
                   ELSE 0
         IN \E vals \in InitNormal(tracked /\ b > 0 /\ kk > 0, v, b, kk) :
              emb' = CEInit(v, d, b, given, k, w, tracked, vals)
    /\ UNCHANGED <<embOut, model, calls, yelpDefault, yelpCall, loop>>

(* output = m(a), with the default iteration=10.                            *)
CECall ==
    /\ emb.state = "built"
    /\ \E x \in TokenBatches(TokenIds(emb)) :
         embOut' = [called |-> TRUE, input |-> ShapeOf(x),
                    out |-> CEForward(emb, ShapeOf(x), 10),
                    weights |-> CEWeights(emb, Flatten(x))]
    /\ UNCHANGED <<emb, model, calls, yelpDefault, yelpCall, loop>>

----------------------------------------------------------------------------
(* Layers of torch.nn and capsule_layer that Model uses.                    *)

Min(a, b) == IF a < b THEN a ELSE b
Max(a, b) == IF a > b THEN a ELSE b

(* nn.Embedding(vocab_size, embedding_size) applied to a (batch, seq) batch. *)
PlainEmbeddingForward(e, input) ==
    IF input = ERR THEN ERR ELSE input \o <<e.embedding_dim>>

(* nn.GRU(input_size, hidden_size, num_layers=2, batch_first=True,          *)
(* bidirectional=True) on (batch, seq, input_size): both directions side by *)
(* side in the last dimension.                                              *)
GRUForward(input_size, hidden_size, s) ==
    IF s = ERR \/ Len(s) # 3 THEN ERR
    ELSE IF s[3] # input_size THEN ERR
    ELSE <<s[1], s[2], 2 * hidden_size>>

(* The two halves left as they are (concatenated).                          *)
FoldDirectionsConcat(s, h) == s

(* out[:, :, :h] + out[:, :, h:]                                            *)
FoldDirections(s, h) ==
    IF s = ERR \/ Len(s) # 3 THEN ERR
    ELSE LET a == Min(h, s[3])
             b == Max(s[3] - h, 0)
         IN IF Broadcast(a, b) < 0 THEN ERR ELSE <<s[1], s[2], Broadcast(a, b)>>

(* nn.Linear(in_features, out_features) on a tensor whose last dimension is *)
(* in_features.                                                             *)
LinearForward(c, s) ==
    IF s = ERR \/ Len(s) = 0 THEN ERR
    ELSE IF s[Len(s)] # c.in_features THEN ERR
    ELSE SubSeq(s, 1, Len(s) - 1) \o <<c.out_features>>

(* CapsuleLinear(...) on (batch, in_capsules, in_length): the poses         *)
(* (batch, out_capsules, out_length); any other input shape raises.         *)
CapsuleLinearForward(c, s) ==
    IF s = ERR \/ Len(s) # 3 THEN ERR
    ELSE IF s[2] # c.in_capsules \/ s[3] # c.in_length THEN ERR
    ELSE <<s[1], c.out_capsules, c.out_length>>

NoClassifier ==
    [kind |-> "none", in_capsules |-> 0, in_length |-> 0, out_capsules |-> 0,
     out_length |-> 0, routing_type |-> "", num_iterations |-> 0,
     in_features |-> 0, out_features |-> 0]

(* CapsuleLinear(out_capsules, in_length, out_length, in_capsules,          *)
(* share_weight=False, routing_type, num_iterations, bias=False)            *)
CapsuleLinear(out_capsules, in_length, out_length, in_capsules, routing_type, num_iterations) ==
    [NoClassifier EXCEPT !.kind = "CapsuleLinear", !.in_capsules = in_capsules,
                         !.in_length = in_length, !.out_capsules = out_capsules,
                         !.out_length = out_length, !.routing_type = routing_type,
                         !.num_iterations = num_iterations]

(* nn.Linear(in_features, out_features, bias=False)                         *)
Linear(in_features, out_features) ==
    [NoClassifier EXCEPT !.kind = "Linear", !.in_features = in_features,
                         !.out_features = out_features]

----------------------------------------------------------------------------
(* Model.                                                                   *)

NoModel ==
    [state |-> "none", in_length |-> 0, out_length |-> 0, hidden_size |-> 0,
     classifier_type |-> "", embedding_type |-> "", routing_type |-> "",
     embedding_size |-> 0, num_class |-> 0, embedding |-> NoEmb,
     classifier |-> NoClassifier, training |-> FALSE, tracked |-> FALSE]

FailedModel == [NoModel EXCEPT !.state = "failed"]

(* The embedding chosen by embedding_type.                                  *)
ModelEmbedding(vocab_size, embedding_size, num_codebook, num_codeword, embedding_type) ==
    IF embedding_type = "cwc"
    THEN CEInit(vocab_size, embedding_size, num_codebook, TRUE, num_codeword, TRUE,
                FALSE, <<>>)
    ELSE IF embedding_type = "cc"
    THEN CEInit(vocab_size, embedding_size, num_codebook, TRUE, num_codeword, FALSE,
                FALSE, <<>>)
    ELSE [NoEmb EXCEPT !.state = "plain", !.num_embeddings = vocab_size,
                       !.embedding_dim = embedding_size]

(* The classifier chosen by classifier_type and routing_type.               *)
ModelClassifier(hidden_size, in_length, out_length, num_class, routing_type, classifier_type, num_iterations) ==
    IF classifier_type = "capsule" /\ routing_type = "k_means"
    THEN CapsuleLinear(num_class, in_length, out_length, hidden_size \div in_length,
                       "k_means", num_iterations)
    ELSE IF classifier_type = "capsule" /\ routing_type = "dynamic"
    THEN CapsuleLinear(num_class, in_length, out_length, hidden_size \div in_length,
                       "dynamic", num_iterations)
    ELSE Linear(hidden_size, num_class)

(* Model.__init__; a module starts in training mode.                        *)
ModelInit(vocab_size, embedding_size, num_codebook, num_codeword, hidden_size, in_length, out_length, num_class, routing_type, embedding_type, classifier_type, num_iterations, tracked) ==
    LET embedding == ModelEmbedding(vocab_size, embedding_size, num_codebook,
                                    num_codeword, embedding_type)
    IN IF embedding.state = "failed" THEN FailedModel
       ELSE [state |-> "built", in_length |-> in_length, out_length |-> out_length,
             hidden_size |-> hidden_size, classifier_type |-> classifier_type,
             embedding_type |-> embedding_type, routing_type |-> routing_type,
             embedding_size |-> embedding_size, num_class |-> num_class,
             embedding |-> embedding,
             classifier |-> ModelClassifier(hidden_size, in_length, out_length,
                                            num_class, routing_type, classifier_type,
                                            num_iterations),
             training |-> TRUE, tracked |-> tracked]

(* self.classifier(out)                                                     *)
ClassifierForward(c, s) ==
    IF c.kind = "CapsuleLinear" THEN CapsuleLinearForward(c, s)
    ELSE LinearForward(c, s)

(* self.embedding(x)                                                        *)
EmbeddingForward(e, input) ==
    IF e.state = "plain" THEN PlainEmbeddingForward(e, input)
    ELSE CEForward(e, input, 10)

(* Whether forward takes the capsule branch.                                *)
ForwardIsCapsule(m) == m.classifier_type = "capsule"

(* Model.forward(x): the shape of the class scores.                         *)
ModelForward(m, x) ==
    LET embed == EmbeddingForward(m.embedding, x)
        feat == GRUForward(m.embedding_size, m.hidden_size, embed)
        fold == FoldDirections(feat, m.hidden_size)
        pooled == ReduceDim(fold, 1)
    IN IF pooled = ERR THEN ERR
       ELSE IF ForwardIsCapsule(m)
            THEN LET caps == View(pooled, <<pooled[1], -1, m.in_length>>)
                     out == ClassifierForward(m.classifier, caps)
                 IN IF out = ERR THEN ERR ELSE ReduceDim(out, Len(out) - 1)
            ELSE ClassifierForward(m.classifier, View(pooled, <<pooled[1], -1>>))

----------------------------------------------------------------------------
(* Values: where a forward pass draws random numbers.  Every tensor is      *)
(* summed up in one integer; the parameters are fixed (token t has          *)
(* embedding weight t + 1, codeword k of every codebook has value k).       *)

(* What F.gumbel_softmax can make argmax pick: for each token position and  *)
(* codebook, any of the codewords.  No draw outside the unweighted branch.  *)
GumbelDraws(m, n) ==
    IF m.tracked /\ m.embedding_type = "cc"
    THEN [1..n -> [1..m.embedding.num_codebook -> 1..NumCodewordOf(m.embedding)]]
    ELSE {<<>>}

(* The factor the GRU's dropout=0.5 between its two layers puts on an      *)
(* activation, if it were applied in every mode: 0 (dropped) or             *)
(* 1 / (1 - 0.5) = 2 (kept).                                                *)
DropFactorsAlways(m) == IF m.tracked THEN {0, 2} ELSE {1}

(* The factor the GRU's dropout=0.5 between its two layers puts on an       *)
(* activation: in training mode 0 (dropped) or 1 / (1 - 0.5) = 2 (kept),    *)
(* in evaluation mode 1 (no dropout).                                       *)
DropFactors(m) == IF m.tracked /\ m.training THEN {0, 2} ELSE {1}

(* The embedded batch, summed.                                              *)
EmbedVal(m, index, g) ==
    LET e == m.embedding
        B == 1..e.num_codebook
        K == 1..NumCodewordOf(e)
    IN IF e.state = "plain"
       THEN SumOver([p \in DOMAIN index |-> index[p] + 1], DOMAIN index)
       ELSE IF e.weighted
       THEN SumOver([p \in DOMAIN index |->
                       SumOver([b \in B |-> SumOver([k \in K |-> k], K)], B)],
                    DOMAIN index)
       ELSE SumOver([p \in DOMAIN index |-> SumOver([b \in B |-> g[p][b]], B)],
                    DOMAIN index)

(* The class scores of a forward pass, summed: the embedded batch through  *)
(* the GRU with its dropout factor, forward plus backward half.             *)
ScoreVal(m, index, g, factor) ==
    IF m.tracked THEN 2 * factor * EmbedVal(m, index, g) ELSE 0

(* The last keep calls of a sequence of calls.                              *)
LastN(s, keep) == IF Len(s) <= keep THEN s ELSE SubSeq(s, Len(s) - keep + 1, Len(s))

(* model = Model(...): tried once, on arguments from the sets.              *)
ModelConstruct(Vs, Es, Bs, Ks, Hs, Is, Os, Cs, tracked) ==
    /\ model.state = "none"
    /\ \E v \in Vs, e \in Es, b \in Bs, k \in Ks, h \in Hs, i \in Is, o \in Os, c \in Cs,
          rt \in {"k_means", "dynamic", "other"}, et \in {"plain", "cwc", "cc"},
          ct \in {"capsule", "linear"} :
         model' = ModelInit(v, e, b, k, h, i, o, c, rt, et, ct, 3, tracked)
    /\ calls' = <<>>
    /\ UNCHANGED <<emb, embOut, yelpDefault, yelpCall, loop>>

(* model.train()                                                            *)
ModelTrain ==
    /\ model.state = "built"
    /\ ~model.training
    /\ model' = [model EXCEPT !.training = TRUE]
    /\ UNCHANGED <<emb, embOut, calls, yelpDefault, yelpCall, loop>>

(* model.eval()                                                             *)
ModelEval ==
    /\ model.state = "built"
    /\ model.training
    /\ model' = [model EXCEPT !.training = FALSE]
    /\ UNCHANGED <<emb, embOut, calls, yelpDefault, yelpCall, loop>>

(* classes = model(data) on a batch of at most maxBatch rows of at most     *)
(* maxSeq tokens; the last keep calls are remembered.                       *)
ModelCall(maxBatch, maxSeq, keep) ==
    /\ model.state = "built"
    /\ \E x \in {y \in TokenBatches({0}) : Len(y) <= maxBatch /\ Len(y[1]) <= maxSeq} :
         \E g \in GumbelDraws(model, Len(Flatten(x))), factor \in DropFactors(model) :
           calls' = LastN(Append(calls,
                                 [x |-> x, training |-> model.training,
                                  out |-> ModelForward(model, ShapeOf(x)),
                                  val |-> ScoreVal(model, Flatten(x), g, factor)]),
                          keep)
    /\ UNCHANGED <<emb, embOut, model, yelpDefault, yelpCall, loop>>

----------------------------------------------------------------------------
(* datasets/yelp.py.  A path is the sequence of its components.             *)

(* os.path.join(a, path)                                                    *)
PathJoin(a, path) == <<a>> \o path

(* The list that is the default of check_files, made once, when the def     *)
(* statement runs.                                                          *)
DefaultCheckFiles == << <<"readme.txt">> >>

(* extracted_name, url = ... for fine_grained, with the default urls.       *)
ExtractedName(fine_grained) ==
    IF fine_grained THEN "yelp_review_full" ELSE "yelp_review_polarity"

YelpUrl(fine_grained) == IF fine_grained THEN "urls[0]" ELSE "urls[1]"

(* for i in range(len(check_files)): check_files[i] = os.path.join(...)     *)
PrefixCheckFiles(check_files, extracted_name) ==
    [i \in DOMAIN check_files |-> PathJoin(extracted_name, check_files[i])]

(* The requested splits, test before train.                                 *)
YelpSplitsSwapped(train, test) ==
    (IF test THEN <<"test.csv">> ELSE <<>>) \o (IF train THEN <<"train.csv">> ELSE <<>>)

(* splits = [file_name for (requested, file_name) in [...] if requested]    *)
YelpSplits(train, test) ==
    (IF train THEN <<"train.csv">> ELSE <<>>) \o (IF test THEN <<"test.csv">> ELSE <<>>)

(* ret: one Dataset per split, read from directory/extracted_name/file_name. *)
YelpDatasets(splits, extracted_name) ==
    [i \in DOMAIN splits |-> [Dataset |-> <<extracted_name, splits[i]>>]]

(* if len(ret) == 1: return ret[0] else: return tuple(ret)                  *)
YelpReturn(ret) ==
    [raised |-> FALSE, tuple |-> Len(ret) # 1, items |-> ret]

YelpRaised == [raised |-> TRUE, tuple |-> FALSE, items |-> <<>>]

NoYelpCall ==
    [n |-> 0, train |-> FALSE, test |-> FALSE, fine_grained |-> FALSE,
     usedDefault |-> FALSE, url |-> "", filename |-> "", check_files |-> <<>>,
     result |-> YelpRaised]

(* yelp_dataset(train=..., test=..., fine_grained=...), with check_files    *)
(* left at its default or given as a list of the caller's.  Whether         *)
(* download_file_maybe_extract finds the check files (downloaded is TRUE)   *)
(* or raises is up to the network and the file system.                      *)
YelpDataset ==
    /\ yelpCall.n < MaxYelpCalls
    /\ \E train \in BOOLEAN, test \in BOOLEAN, fine_grained \in BOOLEAN,
          usedDefault \in BOOLEAN, downloaded \in BOOLEAN :
         LET extracted_name == ExtractedName(fine_grained)
             given == IF usedDefault THEN yelpDefault ELSE << <<"readme.txt">> >>
             check_files == PrefixCheckFiles(given, extracted_name)
         IN /\ yelpDefault' = IF usedDefault THEN check_files ELSE yelpDefault
            /\ yelpCall' =
                 [n |-> yelpCall.n + 1, train |-> train, test |-> test,
                  fine_grained |-> fine_grained, usedDefault |-> usedDefault,
                  url |-> YelpUrl(fine_grained),
                  filename |-> <<extracted_name, ".tar.gz">>,
                  check_files |-> check_files,
                  result |-> IF downloaded
                             THEN YelpReturn(YelpDatasets(YelpSplits(train, test),
                                                          extracted_name))
                             ELSE YelpRaised]
    /\ UNCHANGED <<emb, embOut, model, calls, loop>>

----------------------------------------------------------------------------
(* main.py: the training loop.  A test accuracy is a whole number of        *)
(* accuracy units in 0..MaxAccuracy (ClassErrorMeter(accuracy=True) reports *)
(* a percentage, never negative); the loggers, the csv file and torch.save  *)
(* are taken to succeed.                                                    *)

(* Python's a % b for b # 0: the result takes the sign of b.                *)
PyMod(a, b) == IF b > 0 THEN a % b ELSE -((-a) % (-b))

(* The test of line 153, and a variant that also saves on a tie.            *)
SaveBestOrEqual(accuracy, best_acc) == accuracy >= best_acc

SaveBest(accuracy, best_acc) == accuracy > best_acc

(* main.py has not run: state "none".  batches is len(train_iterator),      *)
(* batch the number of batches of the current epoch already consumed,       *)
(* test_accuracy is results['test_accuracy'], saves counts the calls of     *)
(* torch.save.                                                              *)
NoLoop == [state |-> "none", NUM_EPOCHS |-> 0, NUM_STEPS |-> 0, batches |-> 0, epoch |-> 0, batch |-> 0, current_step |-> 0, best_acc |-> 0, test_accuracy |-> <<>>, saves |-> 0]

(* Lines 44-97: the arguments are parsed, best_acc = 0, current_step = 0,   *)
(* and the first epoch of range(1, NUM_EPOCHS + 1) starts, if there is one. *)
MainBegin(Es, Ss, Bs) ==
    /\ loop.state = "none"
    /\ \E e \in Es, n \in Ss, b \in Bs :
          loop' = [state |-> IF e >= 1 THEN "running" ELSE "done", NUM_EPOCHS |-> e, NUM_STEPS |-> n, batches |-> b, epoch |-> IF e >= 1 THEN 1 ELSE 0, batch |-> 0, current_step |-> 0, best_acc |-> 0, test_accuracy |-> <<>>, saves |-> 0]
    /\ UNCHANGED <<emb, embOut, model, calls, yelpDefault, yelpCall>>

(* Lines 127-167 for the accuracy the test set gave: the accuracy is        *)
(* appended to the results, and the best model is saved.                    *)
Evaluate(l, accuracy) == [l EXCEPT !.test_accuracy = Append(@, accuracy), !.best_acc = IF SaveBest(accuracy, @) THEN accuracy ELSE @, !.saves = IF SaveBest(accuracy, l.best_acc) THEN @ + 1 ELSE @]

(* Lines 98-178: one iteration of the inner loop, with its evaluation.      *)
(* NUM_STEPS = 0 raises ZeroDivisionError at line 118.                      *)
TrainStep ==
    /\ loop.state = "running"
    /\ loop.batch < loop.batches
    /\ LET stepped == [loop EXCEPT !.current_step = @ + 1, !.batch = @ + 1]
       IN  IF loop.NUM_STEPS = 0
           THEN loop' = [stepped EXCEPT !.state = "raised"]
           ELSE IF PyMod(stepped.current_step, loop.NUM_STEPS) = 0
                THEN \E accuracy \in 0..MaxAccuracy : loop' = Evaluate(stepped, accuracy)
                ELSE loop' = stepped
    /\ UNCHANGED <<emb, embOut, model, calls, yelpDefault, yelpCall>>

(* Line 179 and the step of the outer loop: the epoch's batches are used    *)
(* up; the next epoch starts or the program ends.                           *)
EpochEnd ==
    /\ loop.state = "running"
    /\ loop.batch = loop.batches
    /\ loop' = IF loop.epoch < loop.NUM_EPOCHS THEN [loop EXCEPT !.epoch = @ + 1, !.batch = 0] ELSE [loop EXCEPT !.state = "done"]
    /\ UNCHANGED <<emb, embOut, model, calls, yelpDefault, yelpCall>>

----------------------------------------------------------------------------
(* Specifications.                                                          *)

Init ==
    /\ emb = NoEmb
    /\ embOut = NoEmbOut
    /\ model = NoModel
    /\ calls = <<>>
    /\ yelpDefault = DefaultCheckFiles
    /\ yelpCall = NoYelpCall
    /\ loop = NoLoop

(* The vocabulary sizes tried: the small ones and the perfect powers.       *)
VocabSizes == (1..MaxVocab) \cup {Pow(k, b) : k \in 1..MaxRoot, b \in 1..MaxCodebook}

(* The embedding alone, shapes only, on valid and invalid arguments.        *)
NextEmb ==
    \/ CEConstruct(VocabSizes, (-1)..MaxEmbDim, (-1)..MaxCodebook, 0..MaxCodeword, FALSE)
    \/ CECall

SpecEmb == Init /\ [][NextEmb]_vars

(* The embedding alone, with the values of its code parameter.              *)
NextVal ==
    \/ CEConstruct(1..ValVocab, {1}, 1..ValCodebook, 1..ValCodeword, TRUE)
    \/ CECall

SpecVal == Init /\ [][NextVal]_vars

(* The model, shapes only.                                                  *)
NextModel ==
    \/ ModelConstruct({MaxModelVocab}, 1..MaxModelEmbSize, 1..MaxModelCodebook,
                      {MaxModelCodeword}, 1..MaxHidden, 1..MaxInLength,
                      1..MaxOutLength, 1..MaxClass, FALSE)
    \/ ModelCall(MaxBatch, MaxSeqLen, 1)

SpecModel == Init /\ [][NextModel]_vars

(* The model on dimensions of 1, with the random draws of its forward pass  *)
(* on batches of one-token sequences; the last two calls are remembered.    *)
NextRun ==
    \/ ModelConstruct({1}, {1}, {1}, 1..RunCodeword, {1}, {1}, {1}, {1}, TRUE)
    \/ ModelTrain
    \/ ModelEval
    \/ ModelCall(RunBatch, 1, 2)

SpecRun == Init /\ [][NextRun]_vars

(* Calls of yelp_dataset in one process.                                    *)
NextYelp == YelpDataset

SpecYelp == Init /\ [][NextYelp]_vars

(* One run of main.py: any number of epochs, any evaluation period (zero    *)
(* and negative ones too), any number of training batches per epoch.        *)
NextTrain ==
    \/ MainBegin(0..MaxEpochs, (-MaxNumSteps)..MaxNumSteps, 0..MaxTrainBatches)
    \/ TrainStep
    \/ EpochEnd

SpecTrain == Init /\ [][NextTrain]_vars

----------------------------------------------------------------------------
(* Properties.                                                              *)

(* C1: a Model with a capsule classifier (routing_type k_means or dynamic)  *)
(* whose hidden_size is not a multiple of in_length is never built:         *)
(* construction fails.                                                      *)
C1_IndivisibleHiddenRejected ==
    (/\ model.state = "built"
     /\ model.classifier_type = "capsule"
     /\ model.routing_type \in {"k_means", "dynamic"})
    => model.hidden_size % model.in_length = 0

(* Whether the fractions <<numerator, denominator>> of fs add up to 1.      *)
FractionsSumToOne(fs) ==
    LET den == Prod([k \in DOMAIN fs |-> fs[k][2]])
    IN SumOver([k \in DOMAIN fs |-> fs[k][1] * (den \div fs[k][2])], DOMAIN fs) = den

(* C2: in weighted mode, for every token of the input and every codebook,   *)
(* the normalized weights over the codebook's codewords are non-negative    *)
(* and sum to 1.                                                            *)
C2_CodewordWeightsSumToOne ==
    (embOut.called /\ emb.weighted) =>
        \A p \in DOMAIN embOut.weights : \A b \in DOMAIN embOut.weights[p] :
            /\ \A k \in DOMAIN embOut.weights[p][b] :
                   embOut.weights[p][b][k][1] >= 0 /\ embOut.weights[p][b][k][2] > 0
            /\ FractionsSumToOne(embOut.weights[p][b])

(* C3, as claimed: two forward calls on the same token batch give the same  *)
(* class scores whenever the embedding is not the unweighted compositional  *)
(* one.                                                                     *)
C3_SameScoresUnlessCC ==
    \A i, j \in DOMAIN calls :
        (model.embedding_type # "cc" /\ calls[i].x = calls[j].x)
        => (calls[i].out = calls[j].out /\ calls[i].val = calls[j].val)

(* C3, amended: two forward calls in evaluation mode on the same token      *)
(* batch give the same class scores whenever the embedding is not the       *)
(* unweighted compositional one.                                            *)
C3_SameScoresInEvalUnlessCC ==
    \A i, j \in DOMAIN calls :
        (/\ model.embedding_type # "cc"
         /\ calls[i].x = calls[j].x
         /\ ~calls[i].training
         /\ ~calls[j].training)
        => (calls[i].out = calls[j].out /\ calls[i].val = calls[j].val)

(* Two evaluation-mode calls of a model with the weighted compositional     *)
(* embedding on one batch, with equal non-zero scores.                      *)
C3_TwoEvalCallsAgree ==
    /\ Len(calls) = 2
    /\ model.embedding_type = "cwc"
    /\ calls[1].x = calls[2].x
    /\ ~calls[1].training /\ ~calls[2].training
    /\ calls[1].val = calls[2].val
    /\ calls[1].val > 0

(* The dimensions Model is built for: with a capsule classifier, routing    *)
(* k_means or dynamic and in_length dividing hidden_size.                   *)
ValidModel(m) ==
    /\ m.state = "built"
    /\ m.classifier_type = "capsule" =>
          (m.routing_type \in {"k_means", "dynamic"} /\ m.hidden_size % m.in_length = 0)

(* C4: for every embedding variant and every classifier variant,            *)
(* construction succeeds on valid dimensions and forward on a (batch,       *)
(* seq_len) token batch returns scores of shape (batch, num_class).         *)
C4_ForwardShape ==
    /\ model.state # "failed"
    /\ ValidModel(model) =>
          \A i \in DOMAIN calls : calls[i].out = <<Len(calls[i].x), model.num_class>>

(* A forward pass of a model with the unweighted embedding and a capsule    *)
(* classifier of two capsules, on a batch of two sequences.                 *)
C4_CapsuleForwardDone ==
    /\ ValidModel(model)
    /\ model.embedding_type = "cc"
    /\ model.classifier.kind = "CapsuleLinear"
    /\ model.classifier.in_capsules = 2
    /\ model.in_length = 2
    /\ Len(calls) = 1
    /\ Len(calls[1].x) = 2
    /\ calls[1].out = <<2, model.num_class>>

(* C5: forward of a CompositionalEmbedding on a (batch, seq_len) batch      *)
(* returns shape (batch, seq_len, embedding_dim), weighted or not, for      *)
(* every num_codebook >= 1 and num_codeword >= 1 (and embedding_dim >= 1).  *)
C5_EmbeddingShape ==
    (/\ embOut.called
     /\ emb.embedding_dim >= 1
     /\ emb.num_codebook >= 1
     /\ NumCodewordOf(emb) >= 1)
    => embOut.out = <<embOut.input[1], embOut.input[2], emb.embedding_dim>>

(* A forward pass of an unweighted embedding with several codebooks and     *)
(* codewords over a large vocabulary, on a 2 x 2 batch.                     *)
C5_UnweightedForwardDone ==
    /\ embOut.called
    /\ ~emb.weighted
    /\ emb.num_embeddings > MaxVocab
    /\ emb.num_codebook = 2
    /\ NumCodewordOf(emb) = 2
    /\ emb.embedding_dim = 2
    /\ embOut.input = <<2, 2>>
    /\ embOut.out = <<2, 2, 2>>

(* C6: no CompositionalEmbedding with a non-positive embedding_dim or       *)
(* num_codebook is ever built: construction fails.                          *)
C6_NonPositiveDimsRejected ==
    emb.state = "built" => (emb.embedding_dim > 0 /\ emb.num_codebook > 0)

(* The smallest integer k with k^b >= n, for n >= 1 and b >= 1.             *)
LeastRoot(n, b) ==
    CHOOSE k \in 1..n : PowCap(k, b, n) >= n /\ PowCap(k - 1, b, n) < n

(* C7: with num_codeword unspecified, num_codeword is the smallest k with   *)
(* k^num_codebook >= vocab_size, for every vocab_size >= 1 and              *)
(* num_codebook >= 1 (and embedding_dim >= 1); code has shape (vocab_size,  *)
(* num_codebook, k) and codebook shape (num_codebook, k, embedding_dim).    *)
C7_DefaultCodewordIsCeilRoot ==
    (/\ emb.state = "built"
     /\ ~emb.cwGiven
     /\ emb.num_embeddings >= 1
     /\ emb.embedding_dim >= 1
     /\ emb.num_codebook >= 1)
    => LET k == LeastRoot(emb.num_embeddings, emb.num_codebook)
       IN /\ emb.code = <<emb.num_embeddings, emb.num_codebook, k>>
          /\ emb.codebook = <<emb.num_codebook, k, emb.embedding_dim>>

(* The datasets a call asked for: training before test.                     *)
RequestedDatasets(c) ==
    (IF c.train THEN <<[Dataset |-> <<ExtractedName(c.fine_grained), "train.csv">>]>>
     ELSE <<>>)
    \o (IF c.test THEN <<[Dataset |-> <<ExtractedName(c.fine_grained), "test.csv">>]>>
        ELSE <<>>)

C9_ClassifierMatchesForwardPath ==
    model.state = "built" =>
        (ForwardIsCapsule(model) <=> model.classifier.kind = "CapsuleLinear")

(* C10: every call that leaves check_files at its default checks            *)
(* <extracted_name>/readme.txt for its own fine_grained, whatever calls     *)
(* came before.                                                             *)
C10_DefaultCheckFileIsStable ==
    (yelpCall.n > 0 /\ yelpCall.usedDefault) =>
        yelpCall.check_files = << <<ExtractedName(yelpCall.fine_grained), "readme.txt">> >>

(* The positive numbers that are multiples of n.                            *)
IsPositiveMultiple(s, n) == s > 0 /\ \E k \in (-s)..s : s = k * n

MaxOf(S) == CHOOSE x \in S : \A y \in S : y <= x

Measured(l) == {l.test_accuracy[i] : i \in 1..Len(l.test_accuracy)}

(* After the iterations run so far: one evaluation for every step number    *)
(* that is a positive multiple of NUM_STEPS, and best_acc is the maximum of *)
(* 0 and the test accuracies measured.                                      *)
C11_AfterEvaluations ==
    /\ Len(loop.test_accuracy) = Cardinality({s \in 1..loop.current_step : IsPositiveMultiple(s, loop.NUM_STEPS)})
    /\ loop.best_acc = MaxOf({0} \cup Measured(loop))

(* One step of the program: an iteration evaluates exactly when its step    *)
(* number is a positive multiple of NUM_STEPS, best_acc does not decrease,  *)
(* and torch.save is called once exactly when the iteration evaluated and   *)
(* measured more than the best_acc before it, and otherwise not at all.     *)
C11_Iteration ==
    LET iterated == loop'.current_step = loop.current_step + 1
        evaluated == Len(loop'.test_accuracy) = Len(loop.test_accuracy) + 1
        saved == loop'.saves = loop.saves + 1
    IN  /\ loop'.best_acc >= loop.best_acc
        /\ loop'.saves \in {loop.saves, loop.saves + 1}
        /\ evaluated \/ loop'.test_accuracy = loop.test_accuracy
        /\ evaluated => iterated
        /\ iterated => (evaluated <=> IsPositiveMultiple(loop'.current_step, loop'.NUM_STEPS))
        /\ saved <=> (evaluated /\ loop'.test_accuracy[Len(loop'.test_accuracy)] > loop.best_acc)

(* C11: in the training loop of main.py an evaluation runs exactly when     *)
(* current_step is a positive multiple of NUM_STEPS; after every evaluation *)
(* best_acc is the maximum of 0 and all test accuracies measured so far, so *)
(* best_acc never decreases; a checkpoint is saved at an evaluation if and  *)
(* only if its test accuracy is strictly greater than best_acc before it.   *)
C11_EvaluateAndSaveBest == []C11_AfterEvaluations /\ [][C11_Iteration]_vars

(* C11 happens: in the second epoch, with current_step carried over from    *)
(* the first, an evaluation that did not save follows one that saved.       *)
C11_SavedThenNotSaved ==
    /\ loop.epoch = 2
    /\ loop.NUM_STEPS = 2
    /\ Len(loop.test_accuracy) = 2
    /\ loop.test_accuracy[2] <= loop.test_accuracy[1]
    /\ loop.saves = 1

====
